---- MODULE Spec2Model ----
(***************************************************************************)
(* A model of the task-management application: the tasks table, the       *)
(* repository and command layer over it, and the REST handlers.            *)
(*                                                                         *)
(* A row of the table is a record (title, description, isCompleted,        *)
(* sortOrder); the table is a function from the ids of the stored rows to  *)
(* their records.  createdAt and updatedAt are not modelled: no handler    *)
(* reads them.  A request handler is one action; while its response is on  *)
(* the way, last holds the request, the response and the repository        *)
(* methods the handler called, and pre the table as it was when the        *)
(* request arrived.  Respond ends the request.                             *)
(*                                                                         *)
(* The input validation is also run on its own over inputs around its      *)
(* length limits (SpecValidate), and the drag-and-drop handlers of the     *)
(* Home component over the list the page shows (SpecDrag).  SpecEdit is    *)
(* the server without reorders, SpecPage the page and the server together, *)
(* and SpecOverlap two requests whose repository calls interleave.         *)
(***************************************************************************)
EXTENDS Integers, Sequences, FiniteSets, TLC

VARIABLES
    tasks,      \* the tasks table: id -> row (what is committed)
    nextId,     \* the next AUTOINCREMENT id (ids are never reused)
    pre,        \* the table when the last request arrived
    last,       \* the last request and the response it got
    tx,         \* the open transaction of a reorder running step by step
    seen,       \* what a GET /api/tasks beside that reorder read
    form,       \* a (title, description) input and what validation said of it
    home,       \* the Home component: its task list and the drag in progress
    running     \* requests the server handles at the same time, step by step

vars == <<tasks, nextId, pre, last, tx, seen, form, home, running>>

(***************************************************************************)
(* Bounds of the model.                                                    *)
(***************************************************************************)
MaxId == 3          \* ids 1..MaxId are handed out, then create is disabled
MaxSort == 2        \* create is disabled once a sortOrder has reached it
MaxLen == 2         \* the longest taskIds array of a reorder request

(***************************************************************************)
(* HTTP statuses of ResponseFactory.                                       *)
(***************************************************************************)
StatusOk == 200
StatusCreated == 201
StatusBadRequest == 400
StatusNotFound == 404
StatusError == 500

TitleMaxLength == 100
DescriptionMaxLength == 500

(***************************************************************************)
(* JSON values of a request body: null, a number, a string.  A number is   *)
(* kept as twice its value, so that 1.5 is a value (twice = 3) and the     *)
(* integers are the even ones.  A string is a sequence of characters.      *)
(***************************************************************************)
JNull == [type |-> "null", twice |-> 0, chars |-> <<>>]
JNum(n) == [type |-> "number", twice |-> 2 * n, chars |-> <<>>]
JHalf(n) == [type |-> "number", twice |-> 2 * n + 1, chars |-> <<>>]
JStr(s) == [type |-> "string", twice |-> 0, chars |-> s]

IsNull(v) == v.type = "null"
IsString(v) == v.type = "string"
IsNumber(v) == v.type = "number"

Digits == <<"0", "1", "2", "3", "4", "5", "6", "7", "8", "9">>
IsDigit(c) == \E i \in 1..10 : Digits[i] = c
DigitValue(c) == (CHOOSE i \in 1..10 : Digits[i] = c) - 1

\* String.prototype.trim: drop the white space at both ends.
RECURSIVE TrimStart(_)
TrimStart(s) ==
    IF s # <<>> /\ Head(s) = " " THEN TrimStart(Tail(s)) ELSE s

RECURSIVE TrimEnd(_)
TrimEnd(s) ==
    IF s # <<>> /\ s[Len(s)] = " " THEN TrimEnd(SubSeq(s, 1, Len(s) - 1)) ELSE s

Trim(s) == TrimEnd(TrimStart(s))

\* parseInt(s, 10): white space, then the longest run of digits; NaN when
\* there is none.  The result is a JSON number, or NaN.
NaN == [type |-> "NaN", twice |-> 0, chars |-> <<>>]

RECURSIVE DigitRun(_, _)
DigitRun(s, acc) ==
    IF s # <<>> /\ IsDigit(Head(s))
    THEN DigitRun(Tail(s), 10 * acc + DigitValue(Head(s)))
    ELSE acc

ParseInt(s) ==
    LET t == TrimStart(s)
        neg == t # <<>> /\ Head(t) = "-"
        d == IF neg THEN Tail(t) ELSE t
    IN  IF d = <<>> \/ ~IsDigit(Head(d)) THEN NaN
        ELSE JNum((IF neg THEN -1 ELSE 1) * DigitRun(d, 0))

(***************************************************************************)
(* Validation results: isValid and the message.                            *)
(***************************************************************************)
Valid == [isValid |-> TRUE, error |-> ""]
Invalid(msg) == [isValid |-> FALSE, error |-> msg]

\* RequiredHandler.validate
RequiredHandler(v) ==
    IF IsNull(v) \/ (IsString(v) /\ Trim(v.chars) = <<>>)
    THEN Invalid("required") ELSE Valid

\* TypeHandler("string").validate
TypeHandlerString(v) ==
    IF ~IsString(v) THEN Invalid("type") ELSE Valid

\* MaxLengthHandler(maxLength).validate: the length of the value as given
MaxLengthHandler(v, maxLength) ==
    IF IsString(v) /\ Len(v.chars) > maxLength THEN Invalid("maxLength") ELSE Valid

\* NumericHandler.validate
NumericHandler(v) ==
    LET num == IF IsString(v) THEN ParseInt(v.chars) ELSE v
    IN  IF ~IsNumber(num) THEN Invalid("numeric") ELSE Valid

\* TaskValidators.validateTitle: required, string, at most 100
validateTitle(title) ==
    IF ~RequiredHandler(title).isValid THEN RequiredHandler(title)
    ELSE IF ~TypeHandlerString(title).isValid THEN TypeHandlerString(title)
    ELSE MaxLengthHandler(title, TitleMaxLength)

\* TaskValidators.validateDescription: null and "" pass, else string, at most 500
validateDescription(description) ==
    IF IsNull(description) THEN Valid
    ELSE IF IsString(description) /\ description.chars = <<>> THEN Valid
    ELSE IF ~TypeHandlerString(description).isValid THEN TypeHandlerString(description)
    ELSE MaxLengthHandler(description, DescriptionMaxLength)

\* TaskValidators.validateTaskInput
validateTaskInput(title, description) ==
    IF ~validateTitle(title).isValid THEN validateTitle(title)
    ELSE validateDescription(description)

\* TaskValidators.validateTaskId: required, numeric, and then numId > 0
validateTaskId(id) ==
    IF ~RequiredHandler(id).isValid THEN RequiredHandler(id)
    ELSE IF ~NumericHandler(id).isValid THEN NumericHandler(id)
    ELSE LET numId == IF IsString(id) THEN ParseInt(id.chars) ELSE id
         IN  IF IsNumber(numId) /\ numId.twice <= 0
             THEN Invalid("positive") ELSE Valid

(***************************************************************************)
(* The table and the Prisma calls on it.  A call yields the rows after it  *)
(* and whether it threw.                                                   *)
(***************************************************************************)
Ids == DOMAIN tasks

Returned(rows) == [threw |-> FALSE, rows |-> rows]
Threw(rows) == [threw |-> TRUE, rows |-> rows]

\* What Prisma takes for the Int column id: a number that is an integer.
IsPrismaInt(v) == IsNumber(v) /\ v.twice % 2 = 0
IntOf(v) == v.twice \div 2

\* PrismaTaskRepository.findById
findById(rows, id) == id \in DOMAIN rows

\* prisma.task.create: a new row under the next id
repoCreate(rows, id, data) ==
    [i \in DOMAIN rows \cup {id} |->
        IF i = id
        THEN [title |-> data.title, description |-> data.description,
              isCompleted |-> FALSE, sortOrder |-> data.sortOrder]
        ELSE rows[i]]

\* Faulty variants of incrementAllSortOrders: an increment of 2, no shift at all,
\* and a shift of the rows above 0 only.
incrementAllSortOrders_byTwo(rows) ==
    [i \in DOMAIN rows |-> [rows[i] EXCEPT !.sortOrder = @ + 2]]
incrementAllSortOrders_none(rows) == rows
incrementAllSortOrders_positiveOnly(rows) ==
    [i \in DOMAIN rows |->
        IF rows[i].sortOrder > 0 THEN [rows[i] EXCEPT !.sortOrder = @ + 1] ELSE rows[i]]

\* PrismaTaskRepository.incrementAllSortOrders: one updateMany statement
incrementAllSortOrders(rows) ==
    [i \in DOMAIN rows |-> [rows[i] EXCEPT !.sortOrder = @ + 1]]

\* The description as stored: description?.trim() || null
StoredDescription(description) ==
    IF IsString(description) /\ Trim(description.chars) # <<>>
    THEN JStr(Trim(description.chars)) ELSE JNull

(***************************************************************************)
(* The response of a handler.                                              *)
(***************************************************************************)
Response(op, req, status, error, calls) ==
    [op |-> op, req |-> req, status |-> status, error |-> error, calls |-> calls]

NoResponse == Response("none", <<>>, 0, "", <<>>)

\* No request is being answered.
Idle == last.op = "none"

NoTx == [open |-> FALSE, work |-> <<>>, todo |-> <<>>]
NotSeen == [read |-> FALSE, txOpen |-> FALSE, rows |-> <<>>]

\* No input is under validation.
NoForm == [given |-> FALSE, checked |-> FALSE, title |-> JNull,
           description |-> JNull, result |-> Valid]

\* useState(null) of draggedIndex and dropTargetIndex: no index.
null == 0 - 1

NoEvent == [kind |-> "none", index |-> null, offsetY |-> null]

\* The Home component showing list, with no drag in progress.  Beside the
\* three pieces of state the handlers use, it records: event, the last drag
\* event handled, and candidate, the newDropTarget that event computed;
\* slot, the insertion slot the pointer last pointed at (a candidate of an
\* item, or the end of the list for the bottom drop zone), and setBy, the
\* index of the item, or the end for the zone, it did so on; leftList,
\* whether the pointer has left the list altogether; and, from the release
\* on, the list, draggedIndex and dropTargetIndex at the release, the number
\* of reorder calls of the gesture and the taskIds of the last one; failed,
\* whether a request of the page has failed so far.
HomeState(list) ==
    [tasks |-> list, draggedIndex |-> null, dropTargetIndex |-> null,
     event |-> NoEvent, candidate |-> null, slot |-> null, setBy |-> null,
     leftList |-> FALSE, released |-> FALSE, before |-> <<>>,
     wasDragged |-> null, wasTarget |-> null, calls |-> 0, sent |-> <<>>,
     failed |-> FALSE]

\* The ids of the tasks of a list.
IdsOfList(list) == {list[i] : i \in 1..Len(list)}

\* The tables are empty and the page shows no task.
ServerInit ==
    /\ tasks = <<>>
    /\ nextId = 1
    /\ pre = <<>>
    /\ last = NoResponse
    /\ tx = NoTx
    /\ seen = NotSeen

\* A request slot of the server with no request in it.
NoRequest == [op |-> "none", pc |-> "idle", id |-> null,
              body |-> [isArray |-> FALSE, taskIds |-> <<>>],
              initial |-> FALSE, read |-> FALSE, overlapped |-> FALSE]

\* Two requests can be in flight at a time.
Slots == {"first", "second"}

Init ==
    /\ ServerInit
    /\ form = NoForm
    /\ home = HomeState(<<>>)
    /\ running = [r \in Slots |-> NoRequest]

\* The response has been sent: toNextResponse, and the handler returns.
Respond ==
    /\ ~Idle
    /\ ~tx.open
    /\ last' = NoResponse
    /\ pre' = <<>>
    /\ seen' = NotSeen
    /\ UNCHANGED <<tasks, nextId, tx, form, home, running>>

(***************************************************************************)
(* Reorder: PUT /api/tasks/reorder.                                        *)
(***************************************************************************)
\* One prisma.task.update({where: {id}, data: {sortOrder}}) of the
\* transaction: it throws for an id Prisma does not take as an Int and for
\* an id that has no row.
\* A faulty variant of the update of one row: it also writes isCompleted.
updateOne_resetsCompleted(rows, update) ==
    IF IsPrismaInt(update.id) /\ IntOf(update.id) \in DOMAIN rows
    THEN Returned([rows EXCEPT ![IntOf(update.id)].sortOrder = update.sortOrder,
                               ![IntOf(update.id)].isCompleted = FALSE])
    ELSE Threw(rows)

\* prisma.task.update({where: {id}, data: {sortOrder}})
updateOne(rows, update) ==
    IF IsPrismaInt(update.id) /\ IntOf(update.id) \in DOMAIN rows
    THEN Returned([rows EXCEPT ![IntOf(update.id)].sortOrder = update.sortOrder])
    ELSE Threw(rows)

\* The updates of the transaction in their order, up to the first that throws.
RECURSIVE runUpdates(_, _)
runUpdates(rows, updates) ==
    IF updates = <<>> THEN Returned(rows)
    ELSE LET r == updateOne(rows, Head(updates))
         IN  IF r.threw THEN r ELSE runUpdates(r.rows, Tail(updates))

\* A faulty variant of transaction: the updates made before the throw are kept.
transaction_noRollback(rows, updates, dbFails) ==
    LET r == runUpdates(rows, updates)
    IN  IF r.threw \/ dbFails THEN Threw(r.rows) ELSE Returned(r.rows)

\* prisma.$transaction([...]): all the updates, or none of them when one
\* throws or the commit fails.
transaction(rows, updates, dbFails) ==
    LET r == runUpdates(rows, updates)
    IN  IF r.threw \/ dbFails THEN Threw(rows) ELSE Returned(r.rows)

\* PrismaTaskRepository.updateSortOrders
updateSortOrders(rows, updates, dbFails) == transaction(rows, updates, dbFails)

\* A faulty variant of IndexUpdate: positions counted from 1.
IndexUpdate_oneBased(id, index) == [id |-> id, sortOrder |-> index + 1]

\* The route's taskIds.map((id, index) => ({id, sortOrder: index}))
IndexUpdate(id, index) == [id |-> id, sortOrder |-> index]

\* A faulty variant of toUpdates: sortOrder values with gaps between them.
toUpdates_sparse(taskIds) ==
    [i \in 1..Len(taskIds) |-> [id |-> taskIds[i], sortOrder |-> 2 * (i - 1)]]

\* The updates of the route, in the order of taskIds
toUpdates(taskIds) == [i \in 1..Len(taskIds) |-> IndexUpdate(taskIds[i], i - 1)]

\* TaskValidators.validateReorderData: the first entry that fails decides
RECURSIVE validateReorderData(_)
validateReorderData(data) ==
    IF data = <<>> THEN Valid
    ELSE IF ~validateTaskId(Head(data).id).isValid THEN validateTaskId(Head(data).id)
    ELSE IF Head(data).sortOrder < 0 THEN Invalid("sortOrder")
    ELSE validateReorderData(Tail(data))

\* ReorderTasksCommand.execute: any throw becomes the same error result
ReorderTasksCommand(rows, updates, dbFails) ==
    LET r == updateSortOrders(rows, updates, dbFails)
    IN  [success |-> ~r.threw,
         error |-> IF r.threw THEN "reorder failed" ELSE "",
         rows |-> r.rows,
         calls |-> <<"updateSortOrders">>]

\* What PUT /api/tasks/reorder does with a body: the rows after it and the
\* response.  body.isArray is Array.isArray(taskIds).
ReorderRoute(rows, body, dbFails) ==
    LET updates == toUpdates(body.taskIds)
        validationResult == validateReorderData(updates)
        result == ReorderTasksCommand(rows, updates, dbFails)
    IN  IF ~body.isArray
        THEN [rows |-> rows,
              response |-> Response("reorder", body, StatusBadRequest, "not an array", <<>>)]
        ELSE IF ~validationResult.isValid
        THEN [rows |-> rows,
              response |-> Response("reorder", body, StatusBadRequest,
                                    validationResult.error, <<>>)]
        ELSE IF ~result.success
        THEN [rows |-> result.rows,
              response |-> Response("reorder", body, StatusError, result.error,
                                    result.calls)]
        ELSE [rows |-> result.rows,
              response |-> Response("reorder", body, StatusOk, "", result.calls)]

ReorderPUT(Bodies) ==
    /\ Idle
    /\ \E body \in Bodies, dbFails \in BOOLEAN :
        LET out == ReorderRoute(tasks, body, dbFails)
        IN  /\ tasks' = out.rows
            /\ last' = out.response
            /\ pre' = tasks
            /\ UNCHANGED <<tx, seen, form, home, running>>
            /\ UNCHANGED nextId

(***************************************************************************)
(* The same reorder request statement by statement, with GET /api/tasks    *)
(* answered beside it.  prisma.$transaction runs the updates in their      *)
(* order inside one database transaction; tx.work is the table as the      *)
(* transaction sees it, tasks the table as every other connection does.    *)
(***************************************************************************)
\* A faulty variant of visibleDuring: the updates made without a
\* transaction around them, each visible as soon as it is made.
visibleDuring_eachUpdate(committed, work) == work

\* What the other connections read once the open transaction has made the
\* writes of work: the committed rows.
visibleDuring(committed, work) == committed

\* The route up to the call of updateSortOrders, for a body that passes
\* its checks: the transaction begins.
ReorderBegin(Bodies) ==
    /\ Idle
    /\ \E body \in Bodies :
        /\ body.isArray
        /\ validateReorderData(toUpdates(body.taskIds)).isValid
        /\ tx' = [open |-> TRUE, work |-> tasks, todo |-> toUpdates(body.taskIds)]
        /\ last' = Response("reorder", body, 0, "", <<"updateSortOrders">>)
        /\ pre' = tasks
    /\ seen' = NotSeen
    /\ UNCHANGED <<tasks, nextId, form, home, running>>

\* The next update of the transaction.  When it throws, the transaction is
\* rolled back and ReorderTasksCommand and the route answer 500.
TxStatement ==
    /\ tx.open
    /\ tx.todo # <<>>
    /\ LET r == updateOne(tx.work, Head(tx.todo))
       IN  IF r.threw
           THEN /\ tx' = NoTx
                /\ tasks' = pre
                /\ last' = [last EXCEPT !.status = StatusError,
                                        !.error = "reorder failed"]
           ELSE /\ tx' = [tx EXCEPT !.work = r.rows, !.todo = Tail(tx.todo)]
                /\ tasks' = visibleDuring(tasks, r.rows)
                /\ UNCHANGED last
    /\ UNCHANGED <<nextId, pre, seen, form, home, running>>

\* The end of the transaction: COMMIT, or a rollback when the commit fails;
\* the route answers 200 or 500.
TxCommit ==
    /\ tx.open
    /\ tx.todo = <<>>
    /\ \E dbFails \in BOOLEAN :
        IF dbFails
        THEN /\ tasks' = pre
             /\ last' = [last EXCEPT !.status = StatusError, !.error = "reorder failed"]
        ELSE /\ tasks' = tx.work
             /\ last' = [last EXCEPT !.status = StatusOk]
    /\ tx' = NoTx
    /\ UNCHANGED <<nextId, pre, seen, form, home, running>>

\* GET /api/tasks, answered between the arrival of the reorder request and
\* its response: GetAllTasksCommand reads the table with findAll.
TasksGET ==
    /\ last.op = "reorder"
    /\ seen' = [read |-> TRUE, txOpen |-> tx.open, rows |-> tasks]
    /\ UNCHANGED <<tasks, nextId, pre, last, tx, form, home, running>>

(***************************************************************************)
(* Create: POST /api/tasks.                                                *)
(***************************************************************************)
\* CreateTaskCommand.execute.  failAt names the repository call that
\* throws, if one does: the shift and the insert are two calls, and the
\* catch turns a throw of either into the same error result.
CreateTaskCommand(rows, id, title, description, failAt) ==
    LET validationResult == validateTaskInput(title, description)
        shifted == incrementAllSortOrders(rows)
        data == [title |-> Trim(title.chars),
                 description |-> StoredDescription(description),
                 sortOrder |-> 0]
    IN  IF ~validationResult.isValid
        THEN [success |-> FALSE, error |-> validationResult.error,
              rows |-> rows, calls |-> <<>>]
        ELSE IF failAt = "incrementAllSortOrders"
        THEN [success |-> FALSE, error |-> "create failed",
              rows |-> rows, calls |-> <<"incrementAllSortOrders">>]
        ELSE IF failAt = "create"
        THEN [success |-> FALSE, error |-> "create failed",
              rows |-> shifted, calls |-> <<"incrementAllSortOrders", "create">>]
        ELSE [success |-> TRUE, error |-> "",
              rows |-> repoCreate(shifted, id, data),
              calls |-> <<"incrementAllSortOrders", "create">>]

\* A faulty variant of the create route: it shifts the stored tasks before it
\* validates the body.
CreateRoute_shiftsFirst(rows, id, body, failAt) ==
    LET validationResult == validateTaskInput(body.title, body.description)
        result == CreateTaskCommand(rows, id, body.title, body.description, failAt)
    IN  IF ~validationResult.isValid
        THEN [rows |-> incrementAllSortOrders(rows),
              response |-> Response("create", body, StatusBadRequest,
                                    validationResult.error, <<>>)]
        ELSE [rows |-> result.rows,
              response |-> Response("create", body,
                                    IF result.success THEN StatusCreated
                                    ELSE StatusError,
                                    result.error, result.calls)]

\* POST /api/tasks
CreateRoute(rows, id, body, failAt) ==
    LET validationResult == validateTaskInput(body.title, body.description)
        result == CreateTaskCommand(rows, id, body.title, body.description, failAt)
    IN  IF ~validationResult.isValid
        THEN [rows |-> rows,
              response |-> Response("create", body, StatusBadRequest,
                                    validationResult.error, <<>>)]
        ELSE IF ~result.success
        THEN [rows |-> result.rows,
              response |-> Response("create", body, StatusError, result.error,
                                    result.calls)]
        ELSE [rows |-> result.rows,
              response |-> Response("create", body, StatusCreated, "", result.calls)]

FailPoints == {"none", "incrementAllSortOrders", "create"}

TasksPOST(Bodies) ==
    /\ Idle
    /\ nextId <= MaxId
    /\ \A i \in Ids : tasks[i].sortOrder < MaxSort
    /\ \E body \in Bodies, failAt \in FailPoints :
        LET out == CreateRoute(tasks, nextId, body, failAt)
        IN  /\ tasks' = out.rows
            /\ last' = out.response
            /\ pre' = tasks
            /\ UNCHANGED <<tx, seen, form, home, running>>
            /\ nextId' = IF out.response.status = StatusCreated
                         THEN nextId + 1 ELSE nextId

(***************************************************************************)
(* Update, delete and toggle: /api/tasks/[id] and /api/tasks/[id]/toggle.  *)
(* The routes parse the id of the URL with parseInt before they validate   *)
(* it, so the id is a number or NaN here.                                  *)
(***************************************************************************)
\* A faulty variant of the update: the edited task also moves to the front.
repoUpdate_movesToFront(rows, id, data) ==
    [rows EXCEPT ![id].title = data.title, ![id].description = data.description,
                 ![id].sortOrder = 0]

\* prisma.task.update of title and description
repoUpdate(rows, id, data) ==
    [rows EXCEPT ![id].title = data.title, ![id].description = data.description]

\* A faulty variant of the delete: it closes the gap, moving the rows behind
\* the deleted one up by one.
repoDelete_renumbers(rows, id) ==
    [i \in DOMAIN rows \ {id} |->
        IF rows[i].sortOrder > rows[id].sortOrder
        THEN [rows[i] EXCEPT !.sortOrder = @ - 1] ELSE rows[i]]

\* prisma.task.delete
repoDelete(rows, id) == [i \in DOMAIN rows \ {id} |-> rows[i]]

\* PrismaTaskRepository.toggleComplete: it throws Error("Task not found")
\* when findById finds nothing, else it writes the negation of what it read.
toggleComplete(rows, id) ==
    IF ~findById(rows, id) THEN Threw(rows)
    ELSE Returned([rows EXCEPT ![id].isCompleted = ~rows[id].isCompleted])

\* UpdateTaskCommand.execute
UpdateTaskCommand(rows, id, title, description, dbFails) ==
    LET validationResult == validateTaskInput(title, description)
        data == [title |-> Trim(title.chars),
                 description |-> StoredDescription(description)]
    IN  IF ~findById(rows, id)
        THEN [success |-> FALSE, error |-> "task not found",
              rows |-> rows, calls |-> <<"findById">>]
        ELSE IF ~validationResult.isValid
        THEN [success |-> FALSE, error |-> validationResult.error,
              rows |-> rows, calls |-> <<"findById">>]
        ELSE IF dbFails
        THEN [success |-> FALSE, error |-> "update failed",
              rows |-> rows, calls |-> <<"findById", "update">>]
        ELSE [success |-> TRUE, error |-> "",
              rows |-> repoUpdate(rows, id, data), calls |-> <<"findById", "update">>]

\* PUT /api/tasks/[id]
UpdateRoute(rows, req, dbFails) ==
    LET idValidationResult == validateTaskId(req.id)
        validationResult == validateTaskInput(req.title, req.description)
        result == UpdateTaskCommand(rows, IntOf(req.id), req.title, req.description,
                                    dbFails)
    IN  IF ~idValidationResult.isValid
        THEN [rows |-> rows,
              response |-> Response("update", req, StatusBadRequest,
                                    idValidationResult.error, <<>>)]
        ELSE IF ~validationResult.isValid
        THEN [rows |-> rows,
              response |-> Response("update", req, StatusBadRequest,
                                    validationResult.error, <<>>)]
        ELSE IF ~result.success
        THEN [rows |-> result.rows,
              response |-> Response("update", req,
                                    IF result.error = "task not found"
                                    THEN StatusNotFound ELSE StatusError,
                                    result.error, result.calls)]
        ELSE [rows |-> result.rows,
              response |-> Response("update", req, StatusOk, "", result.calls)]

TaskPUT(Reqs) ==
    /\ Idle
    /\ \E req \in Reqs, dbFails \in BOOLEAN :
        LET out == UpdateRoute(tasks, req, dbFails)
        IN  /\ tasks' = out.rows
            /\ last' = out.response
            /\ pre' = tasks
            /\ UNCHANGED <<tx, seen, form, home, running>>
            /\ UNCHANGED nextId

\* A faulty variant of DeleteTaskCommand: its one message for every failure,
\* the missing task included.
DeleteTaskCommand_generic(rows, id, dbFails) ==
    IF ~findById(rows, id) \/ dbFails
    THEN [success |-> FALSE, error |-> "delete failed",
          rows |-> rows, calls |-> <<"findById">>]
    ELSE [success |-> TRUE, error |-> "",
          rows |-> repoDelete(rows, id), calls |-> <<"findById", "delete">>]

\* DeleteTaskCommand.execute
DeleteTaskCommand(rows, id, dbFails) ==
    IF ~findById(rows, id)
    THEN [success |-> FALSE, error |-> "task not found",
          rows |-> rows, calls |-> <<"findById">>]
    ELSE IF dbFails
    THEN [success |-> FALSE, error |-> "delete failed",
          rows |-> rows, calls |-> <<"findById", "delete">>]
    ELSE [success |-> TRUE, error |-> "",
          rows |-> repoDelete(rows, id), calls |-> <<"findById", "delete">>]

\* DELETE /api/tasks/[id]
DeleteRoute(rows, req, dbFails) ==
    LET validationResult == validateTaskId(req.id)
        result == DeleteTaskCommand(rows, IntOf(req.id), dbFails)
    IN  IF ~validationResult.isValid
        THEN [rows |-> rows,
              response |-> Response("delete", req, StatusBadRequest,
                                    validationResult.error, <<>>)]
        ELSE IF ~result.success
        THEN [rows |-> result.rows,
              response |-> Response("delete", req,
                                    IF result.error = "task not found"
                                    THEN StatusNotFound ELSE StatusError,
                                    result.error, result.calls)]
        ELSE [rows |-> result.rows,
              response |-> Response("delete", req, StatusOk, "", result.calls)]

TaskDELETE(Reqs) ==
    /\ Idle
    /\ \E req \in Reqs, dbFails \in BOOLEAN :
        LET out == DeleteRoute(tasks, req, dbFails)
        IN  /\ tasks' = out.rows
            /\ last' = out.response
            /\ pre' = tasks
            /\ UNCHANGED <<tx, seen, form, home, running>>
            /\ UNCHANGED nextId

\* ToggleTaskCommand.execute: the catch replaces whatever was thrown,
\* "Task not found" included, by its own message.
ToggleTaskCommand(rows, id, dbFails) ==
    LET r == toggleComplete(rows, id)
    IN  IF r.threw
        THEN [success |-> FALSE, error |-> "toggle failed",
              rows |-> rows, calls |-> <<"toggleComplete">>]
        ELSE IF dbFails
        THEN [success |-> FALSE, error |-> "toggle failed",
              rows |-> rows, calls |-> <<"toggleComplete">>]
        ELSE [success |-> TRUE, error |-> "",
              rows |-> r.rows, calls |-> <<"toggleComplete">>]

\* PATCH /api/tasks/[id]/toggle
ToggleRoute(rows, req, dbFails) ==
    LET validationResult == validateTaskId(req.id)
        result == ToggleTaskCommand(rows, IntOf(req.id), dbFails)
    IN  IF ~validationResult.isValid
        THEN [rows |-> rows,
              response |-> Response("toggle", req, StatusBadRequest,
                                    validationResult.error, <<>>)]
        ELSE IF ~result.success
        THEN [rows |-> result.rows,
              response |-> Response("toggle", req,
                                    IF result.error = "Task not found"
                                    THEN StatusNotFound ELSE StatusError,
                                    result.error, result.calls)]
        ELSE [rows |-> result.rows,
              response |-> Response("toggle", req, StatusOk, "", result.calls)]

TogglePATCH(Reqs) ==
    /\ Idle
    /\ \E req \in Reqs, dbFails \in BOOLEAN :
        LET out == ToggleRoute(tasks, req, dbFails)
        IN  /\ tasks' = out.rows
            /\ last' = out.response
            /\ pre' = tasks
            /\ UNCHANGED <<tx, seen, form, home, running>>
            /\ UNCHANGED nextId

(***************************************************************************)
(* The requests the clients send.                                          *)
(***************************************************************************)
SeqsUpTo(S, n) == UNION {[1..k -> S] : k \in 0..n}

\* Ids of requests: 0, the ids the table hands out (stored or not), and 1.5.
RequestInts == {JNum(n) : n \in 0..MaxId}
ReorderIds == RequestInts \cup {JHalf(1)}
ReorderLists == SeqsUpTo(ReorderIds, MaxLen)
ReorderBodies ==
    {[isArray |-> TRUE, taskIds |-> ids] : ids \in ReorderLists}
        \cup {[isArray |-> FALSE, taskIds |-> <<>>]}

\* A string of n characters c.
Repeat(c, n) == [i \in 1..n |-> c]

\* A description one character over the limit.
LongDescription == JStr(Repeat("a", DescriptionMaxLength + 1))

\* Bodies of create and update requests: one that passes validation, one
\* with a blank title and one with a description over the limit.
CreateBodies ==
    {[title |-> JStr(<<"a">>), description |-> JNull],
     [title |-> JStr(<<" ">>), description |-> JNull],
     [title |-> JStr(<<"a">>), description |-> LongDescription]}
UpdateReqs ==
    {[id |-> i, title |-> JStr(<<"a", " ">>), description |-> JStr(<<>>)] :
        i \in RequestInts}
    \cup {[id |-> i, title |-> JStr(<<" ">>), description |-> JStr(<<>>)] :
        i \in RequestInts}
    \cup {[id |-> i, title |-> JStr(<<"a">>), description |-> LongDescription] :
        i \in RequestInts}
IdReqs == {[id |-> i] : i \in RequestInts}

Next ==
    \/ TasksPOST(CreateBodies)
    \/ TaskPUT(UpdateReqs)
    \/ TaskDELETE(IdReqs)
    \/ TogglePATCH(IdReqs)
    \/ ReorderPUT(ReorderBodies)
    \/ Respond

Spec == Init /\ [][Next]_vars

\* The requests of the step-by-step reorder: arrays of the ids the table
\* hands out.
StepBodies ==
    {[isArray |-> TRUE, taskIds |-> ids] :
        ids \in SeqsUpTo({JNum(n) : n \in 1..MaxId}, MaxLen)}

NextSteps ==
    \/ TasksPOST(CreateBodies)
    \/ TaskDELETE(IdReqs)
    \/ ReorderBegin(StepBodies)
    \/ TxStatement
    \/ TxCommit
    \/ TasksGET
    \/ Respond

SpecSteps == Init /\ [][NextSteps]_vars

\* Edits of the modal: a new title and a description, for each id.
EditReqs ==
    {[id |-> i, title |-> JStr(<<"b">>), description |-> JStr(<<"d", " ">>)] :
        i \in RequestInts}

\* Creating, editing, toggling and deleting, without reorders.
NextEdit ==
    \/ TasksPOST(CreateBodies)
    \/ TaskPUT(EditReqs)
    \/ TogglePATCH(IdReqs)
    \/ TaskDELETE(IdReqs)
    \/ Respond

SpecEdit == Init /\ [][NextEdit]_vars

(***************************************************************************)
(* The input validation on its own: validateTaskInput over titles and      *)
(* descriptions whose lengths lie around the limits, with and without      *)
(* spaces around them, and over values that are not strings.               *)
(***************************************************************************)
MaxPad == 1         \* spaces before and after a text, and the distance of
                    \* its length from the limit

\* before spaces, then n characters, then after spaces
Padded(before, n, after) ==
    JStr(Repeat(" ", before) \o Repeat("a", n) \o Repeat(" ", after))

LengthsAround(limit) == 0..MaxPad \cup ((limit - MaxPad)..(limit + MaxPad))

TitleInputs ==
    {Padded(b, n, a) : b \in 0..MaxPad, a \in 0..MaxPad,
                       n \in LengthsAround(TitleMaxLength)}
        \cup {JNull, JNum(1)}

DescriptionInputs ==
    {Padded(b, n, 0) : b \in 0..MaxPad, n \in LengthsAround(DescriptionMaxLength)}
        \cup {JNull, JNum(1)}

InitValidate ==
    /\ ServerInit
    /\ running = [r \in Slots |-> NoRequest]
    /\ home = HomeState(<<>>)
    /\ \E title \in TitleInputs, description \in DescriptionInputs :
            form = [NoForm EXCEPT !.given = TRUE, !.title = title,
                                  !.description = description]

\* TaskValidators.validateTaskInput(title, description)
ValidateInput ==
    /\ form.given
    /\ ~form.checked
    /\ form' = [form EXCEPT !.checked = TRUE,
                            !.result = validateTaskInput(form.title, form.description)]
    /\ UNCHANGED <<tasks, nextId, pre, last, tx, seen, home, running>>

NextValidate == ValidateInput

SpecValidate == InitValidate /\ [][NextValidate]_vars

(***************************************************************************)
(* Drag and drop in the Home component.  Positions are the 0-based indexes *)
(* of the code; Sequences counts from 1.  The pointer's offset in an item   *)
(* and the item's height are whole numbers of the same unit; 0.45 is the   *)
(* fraction 45/100, which decides the comparisons of the code as its       *)
(* floating-point product does, the boundaries included.                   *)
(***************************************************************************)
RectHeight == 20    \* the height of an item; offsets are 0..RectHeight

\* rect.height * 0.45, in hundredths of a unit
threshold(height) == height * 45

\* A faulty variant of newDropTarget: the item is split in the middle and has
\* no band in which the target is kept.
newDropTarget_halves(index, offsetY, height) ==
    IF offsetY * 2 < height THEN index ELSE index + 1

\* handleDragOver: newDropTarget, null when the handler returns early
newDropTarget(index, offsetY, height) ==
    IF offsetY * 100 < threshold(height) THEN index
    ELSE IF offsetY * 100 > height * 100 - threshold(height) THEN index + 1
    ELSE null

\* A faulty variant of dropTargetOver: in the middle band the marker is
\* cleared.
dropTargetOver_clearsInBand(h, index, offsetY, height) ==
    LET t == newDropTarget(index, offsetY, height)
    IN  IF t = null \/ t = h.draggedIndex \/ t = h.draggedIndex + 1
        THEN null ELSE t

\* A faulty variant of dropTargetOver: the dragged item's own slots are
\* targets like the others.
dropTargetOver_ownSlot(h, index, offsetY, height) ==
    LET t == newDropTarget(index, offsetY, height)
    IN  IF t = null THEN h.dropTargetIndex ELSE t

\* handleDragOver: dropTargetIndex after the event
dropTargetOver(h, index, offsetY, height) ==
    LET t == newDropTarget(index, offsetY, height)
    IN  IF t = null THEN h.dropTargetIndex
        ELSE IF t = h.draggedIndex \/ t = h.draggedIndex + 1 THEN null
        ELSE t

\* newTasks.splice(index, 1)
RemoveAt(s, index) == SubSeq(s, 1, index) \o SubSeq(s, index + 2, Len(s))

\* A faulty variant of InsertAt: x takes the place of the element at index.
InsertAt_overwrites(s, index, x) ==
    LET at == IF index >= Len(s) THEN Len(s) - 1 ELSE index
    IN  SubSeq(s, 1, at) \o <<x>> \o SubSeq(s, at + 2, Len(s))

\* newTasks.splice(index, 0, x)
InsertAt(s, index, x) ==
    LET at == IF index > Len(s) THEN Len(s) ELSE index
    IN  SubSeq(s, 1, at) \o <<x>> \o SubSeq(s, at + 1, Len(s))

\* A faulty variant of insertIndex: no adjustment for the removal.
insertIndex_unadjusted(draggedIndex, dropTargetIndex) == dropTargetIndex

\* handleDragEnd: insertIndex
insertIndex(draggedIndex, dropTargetIndex) ==
    IF draggedIndex < dropTargetIndex THEN dropTargetIndex - 1 ELSE dropTargetIndex

\* handleDragEnd: newTasks
newTasks(list, draggedIndex, dropTargetIndex) ==
    InsertAt(RemoveAt(list, draggedIndex),
             insertIndex(draggedIndex, dropTargetIndex), list[draggedIndex + 1])

Dragging == home.draggedIndex # null

\* onDragStart of the item at index; one drag at a time.  The handler sets
\* draggedIndex and nothing else; what is recorded about the last gesture
\* is dropped.
handleDragStart ==
    /\ ~Dragging
    /\ \E index \in 0..(Len(home.tasks) - 1) :
        home' = [HomeState(home.tasks) EXCEPT
                    !.draggedIndex = index,
                    !.dropTargetIndex = home.dropTargetIndex,
                    !.event = [kind |-> "dragStart", index |-> index,
                               offsetY |-> null]]
    /\ UNCHANGED <<tasks, nextId, pre, last, tx, seen, form, running>>

\* onDragOver of the item at index, the pointer offsetY below its top
handleDragOver ==
    /\ Dragging
    /\ ~home.released
    /\ \E index \in 0..(Len(home.tasks) - 1), offsetY \in 0..RectHeight :
        LET t == newDropTarget(index, offsetY, RectHeight)
        IN  home' = [home EXCEPT
                        !.dropTargetIndex =
                            dropTargetOver(home, index, offsetY, RectHeight),
                        !.event = [kind |-> "dragOver", index |-> index,
                                   offsetY |-> offsetY],
                        !.candidate = t,
                        !.slot = IF t = null THEN @ ELSE t,
                        !.setBy = IF t = null THEN @ ELSE index,
                        !.leftList = FALSE]
    /\ UNCHANGED <<tasks, nextId, pre, last, tx, seen, form, running>>

\* onDragOver of the drop zone under the list
bottomDragOver ==
    /\ Dragging
    /\ ~home.released
    /\ home' = [home EXCEPT
                    !.dropTargetIndex =
                        IF home.draggedIndex # Len(home.tasks) - 1
                        THEN Len(home.tasks) ELSE @,
                    !.event = [kind |-> "dragOverBottom",
                               index |-> Len(home.tasks), offsetY |-> null],
                    !.candidate = null,
                    !.slot = Len(home.tasks),
                    !.setBy = Len(home.tasks),
                    !.leftList = FALSE]
    /\ UNCHANGED <<tasks, nextId, pre, last, tx, seen, form, running>>

\* onDragLeave of an item: the marker is cleared when the pointer is outside
\* the item's rectangle, and kept when it is inside or on its edge.  away
\* says that the pointer has left the list altogether (it is then outside
\* the rectangle or on its edge); the handler does not look at that.
handleDragLeave ==
    /\ Dragging
    /\ ~home.released
    /\ \E index \in 0..(Len(home.tasks) - 1), outside \in BOOLEAN,
          away \in BOOLEAN :
        home' = [home EXCEPT
                    !.dropTargetIndex = IF outside THEN null ELSE @,
                    !.event = [kind |-> "dragLeave", index |-> index,
                               offsetY |-> null],
                    !.candidate = null,
                    !.leftList = away]
    /\ UNCHANGED <<tasks, nextId, pre, last, tx, seen, form, running>>

\* onDragLeave of the drop zone under the list
bottomDragLeave ==
    /\ Dragging
    /\ ~home.released
    /\ \E away \in BOOLEAN :
        home' = [home EXCEPT
                    !.dropTargetIndex = null,
                    !.event = [kind |-> "dragLeaveBottom",
                               index |-> Len(home.tasks), offsetY |-> null],
                    !.candidate = null,
                    !.leftList = away]
    /\ UNCHANGED <<tasks, nextId, pre, last, tx, seen, form, running>>

\* A faulty variant of dragEnd: the drop target is not cleared.
dragEnd_keepsTarget(h) ==
    LET moved == h.draggedIndex # null /\ h.dropTargetIndex # null
        list == IF moved THEN newTasks(h.tasks, h.draggedIndex, h.dropTargetIndex)
                ELSE h.tasks
    IN  [h EXCEPT !.tasks = list,
                  !.draggedIndex = null,
                  !.calls = IF moved THEN @ + 1 ELSE @,
                  !.sent = IF moved THEN list ELSE @]

\* A faulty variant of dragEnd: the handler run second still sees the drag
\* and the target of the first.
dragEnd_keepsDrag(h) ==
    LET moved == h.draggedIndex # null /\ h.dropTargetIndex # null
        list == IF moved THEN newTasks(h.tasks, h.draggedIndex, h.dropTargetIndex)
                ELSE h.tasks
    IN  [h EXCEPT !.tasks = list,
                  !.calls = IF moved THEN @ + 1 ELSE @,
                  !.sent = IF moved THEN list ELSE @]

\* handleDragEnd on the state h: with a drag and a target it calls
\* handleReorder, which shows the new list and sends its ids; then it clears
\* draggedIndex and dropTargetIndex.
dragEnd(h) ==
    LET moved == h.draggedIndex # null /\ h.dropTargetIndex # null
        list == IF moved THEN newTasks(h.tasks, h.draggedIndex, h.dropTargetIndex)
                ELSE h.tasks
    IN  [h EXCEPT !.tasks = list,
                  !.draggedIndex = null,
                  !.dropTargetIndex = null,
                  !.calls = IF moved THEN @ + 1 ELSE @,
                  !.sent = IF moved THEN list ELSE @]

\* What is recorded at the release: the list, the dragged index and the
\* target the handler found.
AtRelease(h, kind) ==
    [h EXCEPT !.event = [kind |-> kind, index |-> null, offsetY |-> null],
              !.candidate = null,
              !.released = TRUE,
              !.before = h.tasks,
              !.wasDragged = h.draggedIndex,
              !.wasTarget = h.dropTargetIndex]

\* onDrop of the drop zone under the list, which runs handleDragEnd; the
\* pointer is over the zone.
handleDrop ==
    /\ Dragging
    /\ ~home.released
    /\ home.event.kind = "dragOverBottom"
    /\ home' = dragEnd(AtRelease(home, "drop"))
    /\ UNCHANGED <<tasks, nextId, pre, last, tx, seen, form, running>>

\* onDragEnd of the dragged item, which runs handleDragEnd: it ends every
\* gesture, after the drop if there was one.
handleDragEnd ==
    /\ \/ Dragging /\ ~home.released
       \/ home.event.kind = "drop"
    /\ home' = IF home.event.kind = "drop"
               THEN dragEnd([home EXCEPT !.event.kind = "dragEnd"])
               ELSE dragEnd(AtRelease(home, "dragEnd"))
    /\ UNCHANGED <<tasks, nextId, pre, last, tx, seen, form, running>>

\* The page has loaded the tasks 1..n in this order.
InitDrag ==
    /\ ServerInit
    /\ running = [r \in Slots |-> NoRequest]
    /\ form = NoForm
    /\ \E n \in 0..MaxId : home = HomeState([i \in 1..n |-> i])

NextDrag ==
    \/ handleDragStart
    \/ handleDragOver
    \/ bottomDragOver
    \/ handleDragLeave
    \/ bottomDragLeave
    \/ handleDrop
    \/ handleDragEnd

SpecDrag == InitDrag /\ [][NextDrag]_vars

(***************************************************************************)
(* Reading the table.                                                      *)
(***************************************************************************)
SortOrders(rows) == {rows[i].sortOrder : i \in DOMAIN rows}

Ascending(rows, s) ==
    \A i, j \in 1..Len(s) : i < j => rows[s[i]].sortOrder <= rows[s[j]].sortOrder

Orderings(S) ==
    {s \in [1..Cardinality(S) -> S] : \A i, j \in 1..Cardinality(S) : s[i] = s[j] => i = j}

\* PrismaTaskRepository.findAll: the ids in the order of
\* findMany({orderBy: {sortOrder: "asc"}}).  Rows of the same sortOrder come
\* in an order the query does not fix, so this is the set of the results
\* it can give.
findAll(rows) == {s \in Orderings(DOMAIN rows) : Ascending(rows, s)}

(***************************************************************************)
(* What the properties say of the request just answered.                   *)
(***************************************************************************)
NoSharedSortOrder(rows) ==
    \A i, j \in DOMAIN rows : i # j => rows[i].sortOrder # rows[j].sortOrder

Created == last.op = "create" /\ last.status = StatusCreated
NewId == CHOOSE i \in DOMAIN tasks : i \notin DOMAIN pre

ReorderAsked == last.op = "reorder" /\ last.req.isArray
Reordered == last.op = "reorder" /\ last.status = StatusOk
AskedIds == last.req.taskIds
\* The ids of an accepted reorder, as integers.
ReorderedIds == [i \in 1..Len(AskedIds) |-> IntOf(AskedIds[i])]

\* ids lists every element of S exactly once.
ListsEachOnce(ids, S) ==
    /\ Len(ids) = Cardinality(S)
    /\ {ids[i] : i \in 1..Len(ids)} = S

\* ids lists every element of S, and nothing else.
ListsAll(ids, S) == {ids[i] : i \in 1..Len(ids)} = S

\* The entry is an integer that is the id of no row.
UnknownId(v, rows) == IsPrismaInt(v) /\ IntOf(v) \notin DOMAIN rows
\* The entry is not a positive integer.
Malformed(v) == ~(IsPrismaInt(v) /\ IntOf(v) > 0)

(***************************************************************************)
(* The page and the server together: one client, one request at a time.   *)
(* A handler of the page is one action, from the fetch to what it does     *)
(* with the response.  The storage may fail in any request, and the        *)
(* request or the response of a reorder may be lost on the way, which      *)
(* makes its fetch reject.  The page is followed up to its first request   *)
(* that fails.                                                             *)
(***************************************************************************)
\* res.ok
Ok(response) == response.status \in {StatusOk, StatusCreated}

\* A faulty variant of withNewTask: the new task is put last.
withNewTask_last(newTask, prev) == prev \o <<newTask>>

\* setTasks((prev) => [newTask, ...prev])
withNewTask(newTask, prev) == <<newTask>> \o prev

\* JSON.stringify({ taskIds }) of the list
ReorderBody(list) ==
    [isArray |-> TRUE, taskIds |-> [i \in 1..Len(list) |-> JNum(list[i])]]

\* The lists a drag hands to handleReorder: an item moved to a slot that is
\* not its own.
DragResults(list) ==
    UNION {{newTasks(list, d, t) :
                t \in {x \in 0..Len(list) : x # d /\ x # d + 1}} :
            d \in 0..(Len(list) - 1)}

\* fetchTasks: GET /api/tasks and setTasks(data)
fetchTasks ==
    /\ Idle
    /\ ~home.failed
    /\ \E list \in findAll(tasks) :
        home' = [home EXCEPT !.tasks = list]
    /\ last' = Response("list", <<>>, StatusOk, "", <<"findAll">>)
    /\ pre' = tasks
    /\ UNCHANGED <<tasks, nextId, tx, seen, form, running>>

\* handleQuickCreate: POST {title, description: ""}, and the new task is
\* put first when the response is ok
handleQuickCreate ==
    /\ Idle
    /\ ~home.failed
    /\ nextId <= MaxId
    /\ \A i \in Ids : tasks[i].sortOrder < MaxSort
    /\ \E failAt \in FailPoints :
        LET body == [title |-> JStr(<<"a">>), description |-> JStr(<<>>)]
            out == CreateRoute(tasks, nextId, body, failAt)
        IN  /\ tasks' = out.rows
            /\ last' = out.response
            /\ pre' = tasks
            /\ nextId' = IF Ok(out.response) THEN nextId + 1 ELSE nextId
            /\ home' = [home EXCEPT
                            !.tasks = IF Ok(out.response)
                                      THEN withNewTask(nextId, @) ELSE @,
                            !.failed = @ \/ ~Ok(out.response)]
    /\ UNCHANGED <<tx, seen, form, running>>

\* handleToggle of a task of the list: PATCH, and the task is replaced by
\* the one of the response
handleToggle ==
    /\ Idle
    /\ ~home.failed
    /\ \E id \in IdsOfList(home.tasks), dbFails \in BOOLEAN :
        LET out == ToggleRoute(tasks, [id |-> JNum(id)], dbFails)
        IN  /\ tasks' = out.rows
            /\ last' = out.response
            /\ pre' = tasks
            /\ home' = [home EXCEPT !.failed = @ \/ ~Ok(out.response)]
    /\ UNCHANGED <<nextId, tx, seen, form, running>>

\* handleSave of an edited task of the list: PUT, and the task is replaced
\* by the one of the response
handleSave ==
    /\ Idle
    /\ ~home.failed
    /\ \E id \in IdsOfList(home.tasks), dbFails \in BOOLEAN :
        LET req == [id |-> JNum(id), title |-> JStr(<<"b">>),
                    description |-> JStr(<<"d">>)]
            out == UpdateRoute(tasks, req, dbFails)
        IN  /\ tasks' = out.rows
            /\ last' = out.response
            /\ pre' = tasks
            /\ home' = [home EXCEPT !.failed = @ \/ ~Ok(out.response)]
    /\ UNCHANGED <<nextId, tx, seen, form, running>>

\* confirmDelete of a task of the list: DELETE, and the task is filtered
\* out when the response is ok
confirmDelete ==
    /\ Idle
    /\ ~home.failed
    /\ \E id \in IdsOfList(home.tasks), dbFails \in BOOLEAN :
        LET out == DeleteRoute(tasks, [id |-> JNum(id)], dbFails)
        IN  /\ tasks' = out.rows
            /\ last' = out.response
            /\ pre' = tasks
            /\ home' = [home EXCEPT
                            !.tasks = IF Ok(out.response)
                                      THEN SelectSeq(@, LAMBDA x : x # id) ELSE @,
                            !.failed = @ \/ ~Ok(out.response)]
    /\ UNCHANGED <<nextId, tx, seen, form, running>>

\* What the network does to a request: it arrives and is answered, or it
\* is lost, or it arrives and its response is lost.
Networks == {"ok", "requestLost", "responseLost"}

\* handleReorder(newTasks): the list is shown at once and its ids are sent.
\* The response is not looked at; only a fetch that rejects makes the
\* handler fetch the tasks again.
handleReorder ==
    /\ Idle
    /\ ~home.failed
    /\ \E list \in DragResults(home.tasks), dbFails \in BOOLEAN,
          network \in Networks :
        LET body == ReorderBody(list)
            out == ReorderRoute(tasks, body, dbFails)
            rows == IF network = "requestLost" THEN tasks ELSE out.rows
            rejected == network # "ok"
        IN  /\ tasks' = rows
            /\ last' = IF rejected
                       THEN Response("reorder", body, 0, "fetch rejected", <<>>)
                       ELSE out.response
            /\ pre' = tasks
            /\ \E shown \in IF rejected THEN findAll(rows) ELSE {list} :
                home' = [home EXCEPT
                            !.tasks = shown,
                            !.failed = @ \/ rejected \/ ~Ok(out.response)]
    /\ UNCHANGED <<nextId, tx, seen, form, running>>

NextPage ==
    \/ fetchTasks
    \/ handleQuickCreate
    \/ handleToggle
    \/ handleSave
    \/ confirmDelete
    \/ handleReorder
    \/ Respond

SpecPage == Init /\ [][NextPage]_vars

(***************************************************************************)
(* Overlapping requests.  The server awaits every repository call, so the  *)
(* calls of two requests in flight interleave: a create is the shift and   *)
(* then the insert, a toggle the read and then the write, and a reorder    *)
(* its one transaction over the array the page computed when it sent it.   *)
(***************************************************************************)
InFlight(r) == running[r].pc \notin {"idle", "done"}

\* POST /api/tasks arrives; its body has passed validation.
StartCreate(r) ==
    /\ running[r].pc = "idle"
    /\ nextId + Cardinality({o \in Slots : running[o].op = "create"}) <= MaxId
    /\ running' = [running EXCEPT ![r] =
            [NoRequest EXCEPT !.op = "create", !.pc = "incrementAllSortOrders",
                              !.overlapped = \E o \in Slots : InFlight(o)]]
    /\ UNCHANGED <<tasks, nextId, pre, last, tx, seen, form, home>>

\* CreateTaskCommand: await this.repository.incrementAllSortOrders()
StepIncrement(r) ==
    /\ running[r].pc = "incrementAllSortOrders"
    /\ tasks' = incrementAllSortOrders(tasks)
    /\ running' = [running EXCEPT ![r].pc = "create"]
    /\ UNCHANGED <<nextId, pre, last, tx, seen, form, home>>

\* CreateTaskCommand: await this.repository.create({..., sortOrder: 0})
StepCreate(r) ==
    /\ running[r].pc = "create"
    /\ tasks' = repoCreate(tasks, nextId,
                           [title |-> <<"a">>, description |-> JNull,
                            sortOrder |-> 0])
    /\ nextId' = nextId + 1
    /\ running' = [running EXCEPT ![r].pc = "done", ![r].id = nextId]
    /\ UNCHANGED <<pre, last, tx, seen, form, home>>

\* PUT /api/tasks/reorder arrives with the whole list the page shows, in
\* an order of the user's choice.
StartReorder(r) ==
    /\ running[r].pc = "idle"
    /\ tasks # <<>>
    /\ \E list \in Orderings(DOMAIN tasks) :
        running' = [running EXCEPT ![r] =
            [NoRequest EXCEPT !.op = "reorder", !.pc = "updateSortOrders",
                              !.body = ReorderBody(list),
                              !.overlapped = \E o \in Slots : InFlight(o)]]
    /\ UNCHANGED <<tasks, nextId, pre, last, tx, seen, form, home>>

\* The route: its validation and ReorderTasksCommand, whose one call
\* updateSortOrders is one transaction.
StepReorder(r) ==
    /\ running[r].pc = "updateSortOrders"
    /\ tasks' = ReorderRoute(tasks, running[r].body, FALSE).rows
    /\ running' = [running EXCEPT ![r].pc = "done"]
    /\ UNCHANGED <<nextId, pre, last, tx, seen, form, home>>

\* PATCH /api/tasks/[id]/toggle arrives for a stored task.
StartToggle(r) ==
    /\ running[r].pc = "idle"
    /\ \E id \in DOMAIN tasks :
        running' = [running EXCEPT ![r] =
            [NoRequest EXCEPT !.op = "toggle", !.pc = "findById", !.id = id,
                              !.initial = tasks[id].isCompleted,
                              !.overlapped = \E o \in Slots : InFlight(o)]]
    /\ UNCHANGED <<tasks, nextId, pre, last, tx, seen, form, home>>

\* toggleComplete: const task = await this.findById(id)
StepToggleRead(r) ==
    /\ running[r].pc = "findById"
    /\ running' = [running EXCEPT ![r].pc = "update",
                                  ![r].read = tasks[running[r].id].isCompleted]
    /\ UNCHANGED <<tasks, nextId, pre, last, tx, seen, form, home>>

\* toggleComplete: prisma.task.update({data: {isCompleted: !task.isCompleted}})
StepToggleWrite(r) ==
    /\ running[r].pc = "update"
    /\ tasks' = [tasks EXCEPT ![running[r].id].isCompleted = ~running[r].read]
    /\ running' = [running EXCEPT ![r].pc = "done"]
    /\ UNCHANGED <<nextId, pre, last, tx, seen, form, home>>

\* The responses have been sent: both slots are free again.
Finish ==
    /\ \E r \in Slots : running[r].pc = "done"
    /\ \A r \in Slots : ~InFlight(r)
    /\ running' = [r \in Slots |-> NoRequest]
    /\ UNCHANGED <<tasks, nextId, pre, last, tx, seen, form, home>>

NextOverlap ==
    \/ \E r \in Slots : StartCreate(r)
    \/ \E r \in Slots : StepIncrement(r)
    \/ \E r \in Slots : StepCreate(r)
    \/ \E r \in Slots : StartReorder(r)
    \/ \E r \in Slots : StepReorder(r)
    \/ \E r \in Slots : StartToggle(r)
    \/ \E r \in Slots : StepToggleRead(r)
    \/ \E r \in Slots : StepToggleWrite(r)
    \/ Finish

SpecOverlap == Init /\ [][NextOverlap]_vars

(***************************************************************************)
(* The properties.                                                         *)
(***************************************************************************)

\* C1: after a successful reorder whose taskIds list every stored task id
\* exactly once, each task's sortOrder is its 0-based index in taskIds, and
\* findAll returns the tasks in exactly the order of taskIds, whatever the
\* sortOrder values were before.
C1_ReorderAssignsIndexes ==
    (Reordered /\ ListsEachOnce(ReorderedIds, DOMAIN pre)) =>
        /\ DOMAIN tasks = DOMAIN pre
        /\ \A i \in 1..Len(ReorderedIds) : tasks[ReorderedIds[i]].sortOrder = i - 1
        /\ findAll(tasks) = {ReorderedIds}

\* A reorder of two or more tasks that moved a task, from sortOrder values
\* that were not 0..N-1.
C1_Witness ==
    /\ Reordered
    /\ ListsEachOnce(ReorderedIds, DOMAIN pre)
    /\ Cardinality(DOMAIN pre) >= 2
    /\ SortOrders(pre) # 0..(Cardinality(DOMAIN pre) - 1)
    /\ \E i \in DOMAIN pre : pre[i].sortOrder # tasks[i].sortOrder
    /\ ReorderedIds \notin findAll(pre)

\* C2 as stated: a successful create leaves the new task with sortOrder 0
\* and every task that existed before with its sortOrder incremented by 1,
\* and afterwards no two tasks share a sortOrder.
C2_AsStated ==
    Created =>
        /\ tasks[NewId].sortOrder = 0
        /\ \A i \in DOMAIN pre : tasks[i].sortOrder = pre[i].sortOrder + 1
        /\ NoSharedSortOrder(tasks)

\* C2 as amended: a successful create adds one task, with sortOrder 0, and
\* increments the sortOrder of every task that existed before by 1; no
\* other task has the new task's sortOrder, and no two tasks share a
\* sortOrder afterwards unless two of them shared one before the call.
C2_CreateShifts ==
    Created =>
        /\ DOMAIN tasks = DOMAIN pre \cup {NewId}
        /\ tasks[NewId].sortOrder = 0
        /\ \A i \in DOMAIN pre : tasks[i].sortOrder = pre[i].sortOrder + 1
        /\ \A i \in DOMAIN pre : tasks[i].sortOrder # tasks[NewId].sortOrder
        /\ NoSharedSortOrder(pre) => NoSharedSortOrder(tasks)

\* A create over two tasks at sortOrder 0 and 1.
C2_Witness ==
    /\ Created
    /\ Cardinality(DOMAIN pre) = 2
    /\ SortOrders(pre) = {0, 1}
    /\ SortOrders(tasks) = {0, 1, 2}

\* C3 as stated: after any sequence of completed requests, no two stored
\* tasks have the same sortOrder.
C3_AsStated == NoSharedSortOrder(tasks)

\* The reorder just answered was accepted with an array that leaves out a
\* stored task.
OmittingReorder == Reordered /\ ~ListsAll(ReorderedIds, DOMAIN pre)

\* C3 as amended: no completed create, update, toggle, delete or reorder
\* request makes two tasks share a sortOrder when no two did before it, a
\* reorder whose accepted array leaves out a stored task excepted.  The
\* table starts empty, so after any sequence of requests without such a
\* reorder no two stored tasks have the same sortOrder.
C3_UniquePreserved ==
    (~Idle /\ NoSharedSortOrder(pre) /\ ~OmittingReorder) => NoSharedSortOrder(tasks)

\* A create into a table of two tasks of different sortOrder, which leaves
\* three tasks of different sortOrder.
C3_Witness ==
    /\ Created
    /\ Cardinality(DOMAIN pre) = 2
    /\ NoSharedSortOrder(pre)
    /\ Cardinality(SortOrders(tasks)) = 3

\* C4: right after a successful create the new task is the first element
\* findAll returns: its sortOrder is strictly lower than that of every
\* other task, whatever the sortOrder values were before the call.
C4_CreatedIsFirst ==
    Created =>
        /\ \A i \in DOMAIN tasks \ {NewId} :
                tasks[NewId].sortOrder < tasks[i].sortOrder
        /\ \A s \in findAll(tasks) : s[1] = NewId

\* A create into a table where two tasks shared the lowest sortOrder, 0.
C4_Witness ==
    /\ Created
    /\ Cardinality(DOMAIN pre) = 2
    /\ SortOrders(pre) = {0}
    /\ Cardinality(findAll(tasks)) = 2

\* C5 as stated: after any reorder request that succeeds, the sortOrder
\* values of the N stored tasks are exactly 0..N-1.
C5_AsStated ==
    Reordered => SortOrders(tasks) = 0..(Cardinality(DOMAIN tasks) - 1)

\* C5 as amended: after a reorder request that succeeds and whose taskIds
\* list every stored task id exactly once, the sortOrder values of the N
\* stored tasks are exactly 0..N-1.
C5_ContiguousAfterFullReorder ==
    (Reordered /\ ListsEachOnce(ReorderedIds, DOMAIN pre)) =>
        SortOrders(tasks) = 0..(Cardinality(DOMAIN tasks) - 1)

\* A full reorder of two tasks that shared a sortOrder.
C5_Witness ==
    /\ Reordered
    /\ ListsEachOnce(ReorderedIds, DOMAIN pre)
    /\ Cardinality(DOMAIN pre) = 2
    /\ Cardinality(SortOrders(pre)) = 1
    /\ SortOrders(tasks) = {0, 1}

\* C6: a reorder request whose taskIds contain an id of no stored task is
\* rejected in full: it does not succeed, and the table, every sortOrder
\* and so the findAll order included, is as it was before the call.
C6_UnknownIdRejectedInFull ==
    (ReorderAsked /\ \E i \in 1..Len(AskedIds) : UnknownId(AskedIds[i], pre)) =>
        /\ last.status # StatusOk
        /\ tasks = pre
        /\ findAll(tasks) = findAll(pre)

\* The request named a stored task first, at an index that is not its
\* sortOrder, and then an id of no task; the update was attempted.
C6_Witness ==
    /\ ReorderAsked
    /\ Len(AskedIds) = 2
    /\ ~UnknownId(AskedIds[1], pre) /\ ~Malformed(AskedIds[1])
    /\ pre[IntOf(AskedIds[1])].sortOrder # 0
    /\ UnknownId(AskedIds[2], pre) /\ ~Malformed(AskedIds[2])
    /\ last.calls = <<"updateSortOrders">>
    /\ last.status = StatusError

\* C7: a reorder request that names an unknown id (every entry being a
\* positive integer) is answered "task not found", which is neither the
\* answer to a validation failure nor the one to a storage failure.
C7_UnknownIdIsNotFound ==
    (/\ ReorderAsked
     /\ \A i \in 1..Len(AskedIds) : ~Malformed(AskedIds[i])
     /\ \E i \in 1..Len(AskedIds) : UnknownId(AskedIds[i], pre)) =>
        /\ last.status = StatusNotFound
        /\ last.status \notin {StatusBadRequest, StatusError}

\* C8: a reorder request with a malformed entry (an id that is not a
\* positive integer) is rejected with a validation failure before any
\* write: no sortOrder changes and no storage update is attempted.
C8_MalformedRejectedByValidation ==
    (ReorderAsked /\ \E i \in 1..Len(AskedIds) : Malformed(AskedIds[i])) =>
        /\ last.status = StatusBadRequest
        /\ last.calls = <<>>
        /\ tasks = pre

\* The table the reorder being answered leaves when it commits.
AfterReorder ==
    LET r == runUpdates(pre, toUpdates(AskedIds))
    IN  IF r.threw THEN pre ELSE r.rows
\* The stored tasks the reorder being answered lists.
Listed == {i \in DOMAIN pre : \E k \in 1..Len(AskedIds) : AskedIds[k] = JNum(i)}

\* C9: a GET answered beside a reorder reads either the sortOrder values
\* of before the reorder, for all the rows it lists, or those of after
\* it, for all of them; never the new value for some and the old one for
\* others.  While the transaction is open it reads the old ones.
C9_ReadSeesAllOrNothing ==
    (seen.read /\ last.op = "reorder") =>
        /\ \/ \A i \in Listed : seen.rows[i].sortOrder = pre[i].sortOrder
           \/ \A i \in Listed : seen.rows[i].sortOrder = AfterReorder[i].sortOrder
        /\ seen.txOpen => seen.rows = pre
        /\ findAll(seen.rows) \in {findAll(pre), findAll(AfterReorder)}

\* A GET answered while the transaction was open and had written one of
\* the two new values of a reorder that moves two tasks.
C9_Witness ==
    /\ seen.read /\ seen.txOpen
    /\ tx.open /\ Len(tx.todo) = 1
    /\ Cardinality(Listed) = 2
    /\ tx.work # pre
    /\ \A i \in Listed : AfterReorder[i].sortOrder # pre[i].sortOrder

\* C10: create is all-or-nothing: when a create request reports a failure,
\* the table is as it was before the request: no sortOrder has been
\* incremented and no task added.
C10_CreateAllOrNothing ==
    (last.op = "create" /\ last.status # StatusCreated) => tasks = pre

(***************************************************************************)
(* C11.  A toggle request for an id that is not stored is answered "not    *)
(* found", not with the generic failure, and the table is as it was.       *)
(* ToggleTaskCommand replaces the "Task not found" that toggleComplete     *)
(* throws by its own message, which the route answers with 500.            *)
(***************************************************************************)
ToggleAsked == last.op = "toggle" /\ validateTaskId(last.req.id).isValid

C11_ToggleUnknownIsNotFound ==
    (ToggleAsked /\ ~findById(pre, IntOf(last.req.id)))
        => (last.status = StatusNotFound /\ tasks = pre)

(***************************************************************************)
(* C12.  An update or delete request for an id that is not stored is       *)
(* answered "not found" and the table is as it was.  As stated this fails  *)
(* for an update whose body does not pass validation: the route validates  *)
(* the body before the command looks the id up, and answers 400.           *)
(***************************************************************************)
UnknownIdAsked ==
    /\ last.op \in {"update", "delete"}
    /\ validateTaskId(last.req.id).isValid
    /\ ~findById(pre, IntOf(last.req.id))

InvalidInputAsked ==
    /\ last.op \in {"create", "update"}
    /\ ~validateTaskInput(last.req.title, last.req.description).isValid

C13_InvalidInputWritesNothing ==
    InvalidInputAsked
        => /\ last.status = StatusBadRequest
           /\ last.calls = <<>>
           /\ tasks = pre

C13_Witness ==
    /\ InvalidInputAsked
    /\ last.op = "create"
    /\ last.req.description = LongDescription
    /\ last.status = StatusBadRequest
    /\ pre # <<>>
    /\ \A i \in DOMAIN pre : tasks[i].sortOrder = pre[i].sortOrder

(***************************************************************************)
(* C14.  validateTaskInput accepts (title, description) exactly when the   *)
(* title, trimmed, has 1 to 100 characters and the description is absent   *)
(* or, trimmed, has at most 500.  MaxLengthHandler measures the value as   *)
(* given, spaces included, so a title of 100 characters after a space is   *)
(* turned down.                                                            *)
(***************************************************************************)
TrimmedLength(v) == Len(Trim(v.chars))

AcceptedAsSpecified(title, description) ==
    /\ IsString(title)
    /\ TrimmedLength(title) >= 1
    /\ TrimmedLength(title) <= TitleMaxLength
    /\ \/ IsNull(description)
       \/ IsString(description) /\ TrimmedLength(description) <= DescriptionMaxLength

C14_AcceptsExactlyTrimmedInLimits ==
    form.checked =>
        (form.result.isValid <=> AcceptedAsSpecified(form.title, form.description))

(***************************************************************************)
(* C15.  A successful delete removes the one task and renumbers nothing:   *)
(* every other task is stored as it was, sortOrder included, so the        *)
(* listings afterwards are the listings before without the deleted task.   *)
(***************************************************************************)
Deleted == last.op = "delete" /\ last.status = StatusOk
DeletedId == IntOf(last.req.id)

Without(s, id) == SelectSeq(s, LAMBDA x : x # id)

C15_DeleteRenumbersNothing ==
    Deleted =>
        /\ DeletedId \in DOMAIN pre
        /\ DOMAIN tasks = DOMAIN pre \ {DeletedId}
        /\ \A i \in DOMAIN tasks : tasks[i] = pre[i]
        /\ findAll(tasks) = {Without(s, DeletedId) : s \in findAll(pre)}

\* The task in the middle of three is deleted and the gap stays.
C15_Witness ==
    /\ Deleted
    /\ SortOrders(pre) = {0, 1, 2}
    /\ pre[DeletedId].sortOrder = 1
    /\ SortOrders(tasks) = {0, 2}

(***************************************************************************)
(* C16.  A successful reorder changes nothing but the sortOrder of the     *)
(* tasks its array names: a task that is not named is stored as it was,    *)
(* and a named one keeps its title, description and isCompleted.           *)
(***************************************************************************)
NamedIds == {ReorderedIds[k] : k \in 1..Len(ReorderedIds)}

C16_ReorderWritesOnlyNamedSortOrders ==
    Reordered =>
        /\ DOMAIN tasks = DOMAIN pre
        /\ \A i \in DOMAIN pre :
            /\ i \notin NamedIds => tasks[i] = pre[i]
            /\ [tasks[i] EXCEPT !.sortOrder = pre[i].sortOrder] = pre[i]

\* One task is not named, and a completed one is named and moved.
C16_Witness ==
    /\ Reordered
    /\ \E i \in DOMAIN pre : i \notin NamedIds
    /\ \E j \in NamedIds :
        /\ pre[j].isCompleted
        /\ tasks[j].isCompleted
        /\ tasks[j].sortOrder # pre[j].sortOrder

(***************************************************************************)
(* C17.  A release in the dragged item's own slot (the slot the pointer    *)
(* last pointed at is draggedIndex or draggedIndex + 1, the bottom drop    *)
(* zone for the last item included) is a no-op: the list is the one before *)
(* the drag and no reorder call is made.  The drop zone leaves the marker  *)
(* alone when the last item is dragged, so a target set earlier survives   *)
(* a move into the zone and the release there reorders.                    *)
(***************************************************************************)
ReleasedInOwnSlot ==
    /\ home.released
    /\ home.slot \in {home.wasDragged, home.wasDragged + 1}

C17_OwnSlotDropIsNoOp ==
    ReleasedInOwnSlot => (home.tasks = home.before /\ home.calls = 0)

(***************************************************************************)
(* C18.  While dragging, a pointer move over the item at hoverIndex at the *)
(* ratio r of its height gives the candidate hoverIndex when r < 0.45 and  *)
(* hoverIndex + 1 when r > 0.55, and no candidate for 0.45 <= r <= 0.55,   *)
(* both boundaries included.  r is offsetY / RectHeight.                   *)
(***************************************************************************)
DraggedOver == home.event.kind = "dragOver"

Above(offsetY) == offsetY * 100 < 45 * RectHeight
Below(offsetY) == offsetY * 100 > 55 * RectHeight

InBand(offsetY) == ~Above(offsetY) /\ ~Below(offsetY)

C19_BandKeepsTarget ==
    [][(home'.event.kind = "dragOver" /\ InBand(home'.event.offsetY))
            => home'.dropTargetIndex = home.dropTargetIndex]_vars

\* The target was set in a definitive zone of an item, and the pointer is now
\* in the band of the same item with the target still set.
C19_Witness ==
    /\ DraggedOver
    /\ InBand(home.event.offsetY)
    /\ home.setBy = home.event.index
    /\ home.dropTargetIndex \in {home.event.index, home.event.index + 1}

(***************************************************************************)
(* C20.  A release with a target t, the item at d dragged in a list of N:  *)
(* t is a slot other than the item's own, one reorder call is made, and    *)
(* the list handed to it is the old one with the dragged item moved: the   *)
(* other items keep their order, and the dragged item stands right before  *)
(* the item that was at t, or last when t = N.                             *)
(***************************************************************************)
ReleasedOnTarget == home.released /\ home.wasTarget # null

DraggedItem == home.before[home.wasDragged + 1]

C20_ReleaseMovesDraggedItem ==
    ReleasedOnTarget =>
        LET d == home.wasDragged
            t == home.wasTarget
            N == Len(home.before)
        IN  /\ t \in 0..N
            /\ t \notin {d, d + 1}
            /\ home.calls = 1
            /\ home.sent = home.tasks
            /\ Len(home.sent) = N
            /\ Without(home.sent, DraggedItem) = Without(home.before, DraggedItem)
            /\ home.sent[IF t > d THEN t ELSE t + 1] = DraggedItem
            /\ IF t = N
               THEN home.sent[N] = DraggedItem
               ELSE \E k \in 1..(N - 1) :
                        /\ home.sent[k] = DraggedItem
                        /\ home.sent[k + 1] = home.before[t + 1]

\* [A, B, C], C dragged to the top: [C, A, B].
C20_Witness ==
    /\ ReleasedOnTarget
    /\ home.before = <<1, 2, 3>>
    /\ home.wasDragged = 2
    /\ home.wasTarget = 0
    /\ home.sent = <<3, 1, 2>>

(***************************************************************************)
(* C21.  A release with no target, and the pointer leaving the list        *)
(* altogether, both take the resolver back to Idle with no reorder call.   *)
(* Nothing in the component ends the drag when the pointer leaves the      *)
(* list: draggedIndex stays set until the release, and handleDragLeave     *)
(* clears the target only when the pointer is strictly outside the item's  *)
(* rectangle, so a release outside the list can still reorder.             *)
(***************************************************************************)
ReleasedWithoutTarget == home.released /\ home.wasTarget = null

C21_NoTargetOrLeavingEndsIdle ==
    /\ ReleasedWithoutTarget => (~Dragging /\ home.calls = 0)
    /\ home.leftList => (~Dragging /\ home.calls = 0)

(***************************************************************************)
(* C22.  Every release takes the resolver from Dragging to Idle: after     *)
(* the handler draggedIndex and dropTargetIndex are both null, whether or  *)
(* not it called reorder, and the next grab starts with no target.         *)
(***************************************************************************)
C22_ReleaseClearsDrag ==
    /\ home.released => (home.draggedIndex = null /\ home.dropTargetIndex = null)
    /\ home.event.kind = "dragStart" => home.dropTargetIndex = null

\* A release that reordered, and the grab after it.
C22_Witness ==
    /\ home.released
    /\ home.calls = 1
    /\ home.wasTarget # null
    /\ home.draggedIndex = null
    /\ home.dropTargetIndex = null

(***************************************************************************)
(* C24.  Every reorder call of the client carries its whole list: the ids  *)
(* sent are the ids of the list before the release, each exactly once.     *)
(***************************************************************************)
IdsOf(list) == {list[i] : i \in 1..Len(list)}

C24_ReorderSendsWholeList ==
    home.calls > 0 =>
        /\ ListsEachOnce(home.sent, IdsOf(home.before))
        /\ Len(home.before) = Cardinality(IdsOf(home.before))
        /\ home.sent = home.tasks

\* The first of three items is dropped on the bottom drop zone.
C24_Witness ==
    /\ home.calls > 0
    /\ Len(home.before) = 3
    /\ home.wasDragged = 0
    /\ home.wasTarget = 3
    /\ home.sent # home.before

(***************************************************************************)
(* C27.  In every state of the page over a list of N items, a drop target  *)
(* that is set implies a drag in progress, lies in 0..N and is neither     *)
(* draggedIndex nor draggedIndex + 1.  (The list does not change during a  *)
(* drag.)                                                                  *)
(***************************************************************************)
C27_TargetIsValidSlot ==
    home.dropTargetIndex # null =>
        /\ Dragging
        /\ home.dropTargetIndex \in 0..Len(home.tasks)
        /\ home.dropTargetIndex \notin {home.draggedIndex, home.draggedIndex + 1}

\* The middle one of three items is dragged and another item has set the
\* target.
C27_Witness ==
    /\ Dragging
    /\ home.dropTargetIndex # null
    /\ home.slot = home.dropTargetIndex
    /\ home.setBy # home.draggedIndex
    /\ Len(home.tasks) = 3
    /\ home.draggedIndex = 1

(***************************************************************************)
(* C28.  One gesture makes at most one reorder call, also when the item is *)
(* dropped on the bottom drop zone and handleDragEnd runs twice, for the   *)
(* drop and for the dragend.                                               *)
(***************************************************************************)
C28_AtMostOneReorderCall == home.calls <= 1

\* Both handlers have run, and the first of them reordered.
C28_Witness ==
    /\ home.released
    /\ home.event.kind = "dragEnd"
    /\ home.wasTarget = Len(home.before)
    /\ home.slot = Len(home.before)
    /\ home.calls = 1

(***************************************************************************)
(* C30.  Update and toggle leave the ordering alone: a successful update   *)
(* changes the title and description of the addressed task and nothing     *)
(* else, a successful toggle flips its isCompleted and nothing else, so    *)
(* the ids, every sortOrder and the listings are as before.                *)
(***************************************************************************)
Updated == last.op = "update" /\ last.status = StatusOk
Toggled == last.op = "toggle" /\ last.status = StatusOk
AddressedId == IntOf(last.req.id)

OthersUntouched ==
    /\ DOMAIN tasks = DOMAIN pre
    /\ AddressedId \in DOMAIN pre
    /\ \A i \in DOMAIN pre \ {AddressedId} : tasks[i] = pre[i]
    /\ findAll(tasks) = findAll(pre)

C30_UpdateAndToggleKeepOrder ==
    /\ Updated =>
        /\ OthersUntouched
        /\ tasks[AddressedId] =
                [pre[AddressedId] EXCEPT
                    !.title = Trim(last.req.title.chars),
                    !.description = StoredDescription(last.req.description)]
    /\ Toggled =>
        /\ OthersUntouched
        /\ tasks[AddressedId] =
                [pre[AddressedId] EXCEPT !.isCompleted = ~pre[AddressedId].isCompleted]

\* The task in the middle of three gets a new title and description.
C30_Witness ==
    /\ Updated
    /\ Cardinality(DOMAIN pre) = 3
    /\ pre[AddressedId].sortOrder = 1
    /\ tasks[AddressedId].sortOrder = 1
    /\ tasks[AddressedId].title # pre[AddressedId].title
    /\ tasks[AddressedId].description = JStr(<<"d">>)

(***************************************************************************)
(* C23.  When the reorder write fails, because the server rejects the      *)
(* request or the storage fails, the page fetches the tasks again, so that *)
(* what it shows is a listing of the server.  handleReorder does not look  *)
(* at the response: after a 500 it keeps the order it put up itself.       *)
(***************************************************************************)
ReorderFailed == last.op = "reorder" /\ last.status # StatusOk

C23_FailedReorderShowsServerOrder ==
    ReorderFailed => home.tasks \in findAll(tasks)

(***************************************************************************)
(* C26.  As long as no request has failed, the page shows, after every     *)
(* create, edit, toggle, delete and reorder, the ids in the one order in   *)
(* which the server lists them.                                            *)
(***************************************************************************)
C26_PageShowsServerOrder ==
    ~home.failed => findAll(tasks) = {home.tasks}

\* A reorder after a delete and a create: three tasks have been created,
\* two are left, and they stand in the other order than created.
C26_Witness ==
    /\ ~home.failed
    /\ Reordered
    /\ nextId = 4
    /\ Len(home.tasks) = 2
    /\ home.tasks[1] < home.tasks[2]
    /\ ReorderedIds = home.tasks

(***************************************************************************)
(* C25.  Overlapping requests keep the order total: when a create has      *)
(* overlapped with a create, or with a reorder of the list before it, and  *)
(* both are done, no two tasks share a sortOrder (none did before).  The   *)
(* shift and the insert of a create are two calls with no transaction      *)
(* around them: two creates that both shift before either inserts put both *)
(* new tasks at 0.                                                         *)
(***************************************************************************)
BothDone == \A r \in Slots : running[r].pc = "done"

Overlapped == \E r \in Slots : running[r].overlapped

CreateOverlapped ==
    /\ BothDone
    /\ Overlapped
    /\ \E r \in Slots : running[r].op = "create"
    /\ \A r \in Slots : running[r].op \in {"create", "reorder"}

C25_OverlapKeepsSortOrdersDistinct ==
    CreateOverlapped => NoSharedSortOrder(tasks)

(***************************************************************************)
(* C29.  Two toggles of the same task that overlap flip it twice: when     *)
(* both are done, isCompleted is what it was before the first.  Each       *)
(* toggle writes the negation of what it read, so two that read before     *)
(* either writes both write the same value and one flip is lost.           *)
(***************************************************************************)
TogglesOverlapped ==
    /\ BothDone
    /\ Overlapped
    /\ \A r \in Slots : running[r].op = "toggle"
    /\ running["first"].id = running["second"].id

\* The value before the toggle that arrived first: the one that did not
\* find the other in flight.
ValueBefore ==
    LET r == CHOOSE r \in Slots : ~running[r].overlapped
    IN  running[r].initial

C29_OverlappingTogglesFlipTwice ==
    TogglesOverlapped => tasks[running["first"].id].isCompleted = ValueBefore

====
